---- MODULE Spec2Model ----
(***************************************************************************)
(* Model of src/Melayu/app.py, the shrimp-farm dashboard.  The script is   *)
(* re-executed top to bottom on every interaction (upload, removal of the  *)
(* file, plain rerun, chat message); one action of this module is one such *)
(* execution.  What survives between executions is the uploader widget's   *)
(* file, st.session_state and the process-wide client.                     *)
(***************************************************************************)
EXTENDS Integers, Sequences, FiniteSets, TLC

VARIABLES
    client,         \* TRUE iff GROQ_API_KEY was set at process start (app.py:24-30)
    uploaded_file,  \* value of the st.file_uploader widget (app.py:64)
    session_state,  \* st.session_state: a mapping that may hold "chat_history"
    summary,        \* the script-local summary data frame of the last run
    commentary,     \* the rule-based insight of the last run
    ai_text,        \* the script-local ai_text of the last run
    steps,          \* what the last run put on the page, in order
    sent,           \* the completion requests the last run issued, in order
    calls           \* number of completion requests issued since process start

vars == <<client, uploaded_file, session_state, summary, commentary, ai_text,
          steps, sent, calls>>

----------------------------------------------------------------------------
(* Bounds of the model. *)
MaxRows == 3        \* rows of a table in the aggregation specification
MaxFileRows == 2    \* rows of a table in the session specification
MaxTurns == 5       \* longest transcript before a further chat message
MaxCalls == 5       \* completion requests issued before the model stops

----------------------------------------------------------------------------
(* Tables. *)
Required == {"Tambak", "Produksi_kg", "Biaya", "Pendapatan"}

ExtraColumn == "Lokasi"

AllColumns == Required \cup {ExtraColumn}

\* the column sets the model uploads: conforming, conforming with an extra
\* column, and each of the four single-column-missing sets
ColumnSets ==
    {Required, AllColumns} \cup {Required \ {c} : c \in Required}

SeqsUpTo(S, n) == UNION {[1..k -> S] : k \in 0..n}

FullRows(farms, prod, biaya, pend) ==
    [Tambak : farms, Produksi_kg : prod, Biaya : biaya, Pendapatan : pend,
     Lokasi : {"X"}]

Project(rows, columns) ==
    [i \in DOMAIN rows |-> [c \in columns |-> rows[i][c]]]

Tables(fullrows, n, colsets) ==
    {[columns |-> cols, rows |-> Project(rs, cols)] :
        rs \in SeqsUpTo(fullrows, n), cols \in colsets}

None == [columns |-> {"<no file>"}, rows |-> <<>>]

\* the session specification uploads tables of a profitable farm A and a
\* loss-making farm B, in every column set
SessionFiles ==
    Tables(FullRows({"A"}, {1}, {2}, {3}) \cup FullRows({"B"}, {1}, {2}, {1}),
           MaxFileRows, ColumnSets)

\* the aggregation specification uploads conforming tables of three farms
AggFiles ==
    Tables(FullRows({"A", "B", "C"}, {2}, {1, 3}, {2, 4}), MaxRows, {Required})

----------------------------------------------------------------------------
(* Schema Validator and Aggregator (app.py:80-92). *)
HasRequiredColumns(columns) == Required \subseteq columns

RECURSIVE SUM(_, _, _)
SUM(rows, col, tambak) ==
    IF rows = <<>> THEN 0
    ELSE (IF Head(rows).Tambak = tambak THEN Head(rows)[col] ELSE 0)
         + SUM(Tail(rows), col, tambak)

Laba_Bersih(rows, tambak) ==
    SUM(rows, "Pendapatan", tambak) - SUM(rows, "Biaya", tambak)

GroupRow(rows, tambak) ==
    [Tambak |-> tambak,
     Total_Produksi |-> SUM(rows, "Produksi_kg", tambak),
     Total_Biaya |-> SUM(rows, "Biaya", tambak),
     Total_Pendapatan |-> SUM(rows, "Pendapatan", tambak),
     Laba_Bersih |-> Laba_Bersih(rows, tambak)]

GroupBy(rows) == {rows[i].Tambak : i \in DOMAIN rows}

\* ORDER BY Laba_Bersih ASC instead of DESC
OrderByAscending(s) ==
    \A i \in 1..(Len(s) - 1) : s[i].Laba_Bersih <= s[i + 1].Laba_Bersih

OrderBy(s) ==
    \A i \in 1..(Len(s) - 1) : s[i].Laba_Bersih >= s[i + 1].Laba_Bersih

\* every result the query may return: one row per group, ordered by
\* Laba_Bersih descending; the order of equal profits is the engine's choice
query(df) ==
    LET groups == {GroupRow(df.rows, t) : t \in GroupBy(df.rows)}
        n == Cardinality(groups)
    IN {s \in [1..n -> groups] :
            /\ \A i, j \in 1..n : i # j => s[i] # s[j]
            /\ OrderBy(s)}

----------------------------------------------------------------------------
(* Texts. *)
SystemPrompt ==
    "Anda adalah konsultan tambak udang yang menganalisis data keuangan dan produksi."

InactiveNotice == "AI Commentary tidak aktif (API Key belum diatur)."

\* the texts the completion service may return
Texts == {"T1", "T2"}

\* the failures a completion request may raise
Failures == {"APIError"}

\* f"Error AI Commentary: {e}"
ErrorCommentary(e) == [f \in Failures |-> "Error AI Commentary: APIError"][e]

Questions == {"X"}

Model == "llama-3.3-70b-versatile"

Temperature == "0.7"

\* what one completion request does: returns a text or raises
Outcomes ==
    [ok : {TRUE}, text : Texts] \cup [ok : {FALSE}, text : Failures]

\* a request that is not issued has no outcome to choose
NotCalled == [ok |-> FALSE, text |-> "not called"]

ServiceOutcomes(called) == IF called THEN Outcomes ELSE {NotCalled}

Turn(role, content) == [role |-> role, content |-> content]

----------------------------------------------------------------------------
(* The script. *)
to_string(summary_df) ==
    [header |-> <<"Tambak", "Total_Produksi", "Total_Biaya",
                  "Total_Pendapatan", "Laba_Bersih">>,
     lines |-> [i \in DOMAIN summary_df |->
                  <<summary_df[i].Tambak, summary_df[i].Total_Produksi,
                    summary_df[i].Total_Biaya, summary_df[i].Total_Pendapatan,
                    summary_df[i].Laba_Bersih>>]]

Request(messages) ==
    [model |-> Model, messages |-> messages, temperature |-> Temperature]

\* generate_ai_commentary without the "if not client" early return
generate_ai_commentary_unguarded(summary_df, outcome) ==
    LET prompt == [template |-> "Buat analisis singkat",
                   text_summary |-> to_string(summary_df)]
        request == Request(<<Turn("user", prompt)>>)
    IN IF outcome.ok
       THEN [text |-> outcome.text, sent |-> <<request>>]
       ELSE [text |-> "Error AI Commentary: APIError", sent |-> <<request>>]

\* generate_ai_commentary: the text it returns and the requests it issued
generate_ai_commentary(summary_df, outcome) ==
    IF ~client
    THEN [text |-> InactiveNotice, sent |-> <<>>]
    ELSE LET prompt == [template |-> "Buat analisis singkat",
                        text_summary |-> to_string(summary_df)]
             request == Request(<<Turn("user", prompt)>>)
         IN IF outcome.ok
            THEN [text |-> outcome.text, sent |-> <<request>>]
            ELSE [text |-> ErrorCommentary(outcome.text), sent |-> <<request>>]

\* the rule-based insight built from the first and the last row
RuleBased(s) ==
    LET top == s[1]
        bottom == s[Len(s)]
    IN [top |-> top.Tambak, top_laba |-> top.Laba_Bersih,
        bottom |-> bottom.Tambak, bottom_laba |-> bottom.Laba_Bersih,
        selisih |-> top.Laba_Bersih - bottom.Laba_Bersih]

NoCommentary ==
    [top |-> "", top_laba |-> 0, bottom |-> "", bottom_laba |-> 0, selisih |-> 0]

HasHistory(state) == "chat_history" \in DOMAIN state

NoState == [k \in {} |-> <<>>]

\* the seed without the narration turn
SeedHistorySystemOnly(text) == <<Turn("system", SystemPrompt)>>

SeedHistory(text) == <<Turn("system", SystemPrompt), Turn("assistant", text)>>

\* the seeding without its "not in st.session_state" guard
chat_history_always_seeded(state, text) == SeedHistory(text)

\* the seeding that also refreshes the narration turn of an existing transcript
chat_history_narration_refreshed(state, text) ==
    IF ~HasHistory(state) THEN SeedHistory(text)
    ELSE [state.chat_history EXCEPT ![2] = Turn("assistant", text)]

\* app.py:127-131: the transcript is created only when the session has none
chat_history_after_seed(state, text) ==
    IF ~HasHistory(state) THEN SeedHistory(text) ELSE state.chat_history

\* app.py:137 without the append
AppendQuestionDropped(history, question) == history

\* app.py:137: the user's turn is appended before anything else
AppendQuestion(history, question) == Append(history, Turn("user", question))

\* a request that carries only the newest turn
ChatMessagesLastOnly(history) == <<history[Len(history)]>>

\* the messages argument of the chat request
ChatMessages(history) == history

\* an except branch that records the error as an assistant turn
AfterChatFailureRecorded(history) ==
    Append(history, Turn("assistant", "Error chat: APIError"))

\* the transcript after the except branch of the chat request
AfterChatFailure(history) == history

\* the transcript after a successful chat request
AfterChatSuccess(history, answer) == Append(history, Turn("assistant", answer))

\* app.py:136-153: the chat input and what follows it
chat_round(history, question, outcome) ==
    IF question = ""
    THEN [history |-> history, sent |-> <<>>, steps |-> <<>>]
    ELSE LET h1 == AppendQuestion(history, question)
         IN IF client
            THEN IF outcome.ok
                 THEN [history |-> AfterChatSuccess(h1, outcome.text),
                       sent |-> <<Request(ChatMessages(h1))>>,
                       steps |-> <<"user_message", "assistant_message">>]
                 ELSE [history |-> AfterChatFailure(h1),
                       sent |-> <<Request(ChatMessages(h1))>>,
                       steps |-> <<"user_message", "chat_error">>]
            ELSE [history |-> h1, sent |-> <<>>,
                  steps |-> <<"user_message", "chat_warning">>]

\* app.py:158
NoFileRun ==
    /\ steps' = <<"upload_info">>
    /\ summary' = <<>>
    /\ commentary' = NoCommentary
    /\ ai_text' = ""
    /\ sent' = <<>>
    /\ UNCHANGED <<session_state, calls>>

\* a schema warning branch that also clears the session
SchemaWarningRunClearing ==
    /\ steps' = <<"data_preview", "schema_warning">>
    /\ summary' = <<>>
    /\ commentary' = NoCommentary
    /\ ai_text' = ""
    /\ sent' = <<>>
    /\ session_state' = NoState
    /\ UNCHANGED calls

\* app.py:155-156
SchemaWarningRun ==
    /\ steps' = <<"data_preview", "schema_warning">>
    /\ summary' = <<>>
    /\ commentary' = NoCommentary
    /\ ai_text' = ""
    /\ sent' = <<>>
    /\ UNCHANGED <<session_state, calls>>

\* app.py:105: summary.iloc[0] on a frame without rows raises IndexError; the
\* run ends there and the page shows the exception
IndexErrorRun(s) ==
    /\ steps' = <<"data_preview", "chart", "IndexError">>
    /\ summary' = s
    /\ commentary' = NoCommentary
    /\ ai_text' = ""
    /\ sent' = <<>>
    /\ UNCHANGED <<session_state, calls>>

\* app.py:105-153
DashboardRun(s, question) ==
    \E narrator \in ServiceOutcomes(client),
       reply \in ServiceOutcomes(client /\ question # "") :
    LET gen == generate_ai_commentary(s, narrator)
        history == chat_history_after_seed(session_state, gen.text)
        round == chat_round(history, question, reply)
    IN /\ summary' = s
       /\ commentary' = RuleBased(s)
       /\ ai_text' = gen.text
       /\ session_state' = [chat_history |-> round.history]
       /\ sent' = gen.sent \o round.sent
       /\ calls' = calls + Len(gen.sent \o round.sent)
       /\ calls' <= MaxCalls
       /\ steps' = <<"data_preview", "chart", "rule_commentary", "ai_commentary",
                     "transcript", "chat_input">> \o round.steps

\* one execution of the script with the given widget values
Script(file, question) ==
    /\ uploaded_file' = file
    /\ client' = client
    /\ IF file = None THEN NoFileRun
       ELSE IF ~HasRequiredColumns(file.columns) THEN SchemaWarningRun
       ELSE \E s \in query(file) :
                IF Len(s) = 0 THEN IndexErrorRun(s)
                ELSE DashboardRun(s, question)

----------------------------------------------------------------------------
(* The interactions. *)
Upload(file) == Script(file, "")

RemoveFile ==
    /\ uploaded_file # None
    /\ Script(None, "")

Rerun == Script(uploaded_file, "")

Chat(question) ==
    /\ "chat_input" \in {steps[i] : i \in DOMAIN steps}
    /\ Len(session_state.chat_history) < MaxTurns
    /\ Script(uploaded_file, question)

Init ==
    /\ client \in BOOLEAN
    /\ uploaded_file = None
    /\ session_state = NoState
    /\ summary = <<>>
    /\ commentary = NoCommentary
    /\ ai_text = ""
    /\ steps = <<"upload_info">>
    /\ sent = <<>>
    /\ calls = 0

Next ==
    \/ \E file \in SessionFiles : Upload(file)
    \/ RemoveFile
    \/ Rerun
    \/ \E question \in Questions : Chat(question)

Spec == Init /\ [][Next]_vars

\* the aggregation specification: a conforming table is uploaded, looked at
\* and removed again, without a credential
FirstUpload(file) ==
    /\ uploaded_file = None
    /\ Upload(file)

NextAgg ==
    \/ \E file \in AggFiles : FirstUpload(file)
    \/ RemoveFile

InitAgg == Init /\ ~client

SpecAgg == InitAgg /\ [][NextAgg]_vars

----------------------------------------------------------------------------
(* Vocabulary of the properties. *)
Conforming(file) == file # None /\ Required \subseteq file.columns

Rejected(file) == file # None /\ ~(Required \subseteq file.columns)

Shown(page, item) == \E i \in DOMAIN page : page[i] = item

LastOf(page) == page[Len(page)]

IsPrefix(s, t) == Len(s) <= Len(t) /\ \A i \in DOMAIN s : s[i] = t[i]

Roles(history) == [i \in DOMAIN history |-> history[i].role]

RowsOf(rows, tambak) == {i \in DOMAIN rows : rows[i].Tambak = tambak}

RECURSIVE SumOver(_, _, _)
SumOver(rows, col, indices) ==
    IF indices = {} THEN 0
    ELSE LET i == CHOOSE j \in indices : TRUE
         IN rows[i][col] + SumOver(rows, col, indices \ {i})

----------------------------------------------------------------------------
\* C1: for a conforming table with at least one row the summary has exactly
\* one row per distinct Tambak of the input, each row's three totals are the
\* sums over exactly that farm's input rows, Laba_Bersih is Total_Pendapatan
\* minus Total_Biaya in every row, and the rows are ordered by Laba_Bersih
\* non-increasing.
C1_AggregatorSummary ==
    (Conforming(uploaded_file) /\ Len(uploaded_file.rows) >= 1) =>
        LET rows == uploaded_file.rows
            farms == {rows[i].Tambak : i \in DOMAIN rows}
        IN /\ Len(summary) = Cardinality(farms)
           /\ \A t \in farms :
                  Cardinality({k \in DOMAIN summary : summary[k].Tambak = t}) = 1
           /\ \A k \in DOMAIN summary :
                  LET mine == RowsOf(rows, summary[k].Tambak)
                  IN /\ mine # {}
                     /\ summary[k].Total_Produksi = SumOver(rows, "Produksi_kg", mine)
                     /\ summary[k].Total_Biaya = SumOver(rows, "Biaya", mine)
                     /\ summary[k].Total_Pendapatan = SumOver(rows, "Pendapatan", mine)
                     /\ summary[k].Laba_Bersih =
                            summary[k].Total_Pendapatan - summary[k].Total_Biaya
           /\ \A k \in 1..(Len(summary) - 1) :
                  summary[k].Laba_Bersih >= summary[k + 1].Laba_Bersih

\* a table in which one farm has two rows and another farm a strictly lower,
\* negative profit has been aggregated
C1_Witness ==
    /\ Conforming(uploaded_file)
    /\ Len(uploaded_file.rows) = 3
    /\ Len(summary) = 2
    /\ Cardinality(RowsOf(uploaded_file.rows, summary[1].Tambak)) = 2
    /\ summary[1].Laba_Bersih > 0
    /\ summary[2].Laba_Bersih < 0

\* C2: a run on an upload that lacks one of the four required columns shows
\* the preview and the warning and nothing else: no summary, no chart, no
\* rule-based or AI narration, no completion request, and the session state
\* is unchanged; a conforming upload with rows that follows it is processed
\* in full.
C2_SchemaRejectHalts ==
    [][ /\ Rejected(uploaded_file') =>
            /\ steps' = <<"data_preview", "schema_warning">>
            /\ summary' = <<>>
            /\ commentary' = NoCommentary
            /\ ai_text' = ""
            /\ sent' = <<>>
            /\ calls' = calls
            /\ session_state' = session_state
        /\ (/\ Rejected(uploaded_file)
            /\ Conforming(uploaded_file')
            /\ Len(uploaded_file'.rows) >= 1) =>
            /\ summary' \in query(uploaded_file')
            /\ commentary' = RuleBased(summary')
            /\ Shown(steps', "chart")
            /\ Shown(steps', "ai_commentary")
            /\ Shown(steps', "chat_input")
            /\ HasHistory(session_state')
      ]_vars

\* a table without the Biaya column was rejected in a session that already
\* holds a transcript with chat turns
C2_Witness ==
    /\ uploaded_file # None
    /\ uploaded_file.columns = Required \ {"Biaya"}
    /\ Len(uploaded_file.rows) >= 1
    /\ steps = <<"data_preview", "schema_warning">>
    /\ HasHistory(session_state)
    /\ Len(session_state.chat_history) >= 3

\* C3: a chat round on a seeded transcript that obtains no completion (the
\* request raises, or there is no client) leaves the transcript equal to the
\* one before the round with exactly the user's turn appended.
C3_FailedRoundAppendsUserOnly ==
    [][ (/\ HasHistory(session_state)
         /\ Shown(steps', "user_message")
         /\ LastOf(steps') \in {"chat_error", "chat_warning"}) =>
            \E q \in Questions :
                session_state' =
                    [chat_history |->
                        Append(session_state.chat_history, Turn("user", q))]
      ]_vars

\* a chat request raised after an earlier round had succeeded
C3_Witness ==
    /\ client
    /\ LastOf(steps) = "chat_error"
    /\ Len(sent) = 2
    /\ HasHistory(session_state)
    /\ Roles(session_state.chat_history) =
           <<"system", "assistant", "user", "assistant", "user">>

\* C4 as stated: a transcript exists only when a successful AI Narrator call
\* seeded it, so its second turn is a text the service returned and never the
\* inactive notice or the error string.
C4_SeededOnlyBySuccess ==
    HasHistory(session_state) =>
        /\ Len(session_state.chat_history) >= 2
        /\ session_state.chat_history[2].content \in Texts

\* C4 amended: a session without a transcript gets one on, and only on, a run
\* that reaches the AI Narrator, and then it is exactly the system turn
\* followed by an assistant turn holding what the AI Narrator returned in that
\* run: the service's text, the inactive notice when there is no client, or
\* the error string of a caught failure.
C4_SeededByFirstNarration ==
    [][ ~HasHistory(session_state) =>
            IF Shown(steps', "ai_commentary")
            THEN /\ session_state' =
                        [chat_history |->
                            <<Turn("system", SystemPrompt),
                              Turn("assistant", ai_text')>>]
                 /\ IF client
                    THEN ai_text' \in Texts \cup {ErrorCommentary(e) : e \in Failures}
                    ELSE ai_text' = InactiveNotice
            ELSE ~HasHistory(session_state')
      ]_vars

\* the transcript was seeded with the error string of a failed narration
C4_Witness ==
    /\ client
    /\ HasHistory(session_state)
    /\ session_state.chat_history =
           <<Turn("system", SystemPrompt),
             Turn("assistant", "Error AI Commentary: APIError")>>
    /\ ai_text = "Error AI Commentary: APIError"

\* C5: without a client no completion request is ever issued, whatever is
\* uploaded or asked, and every AI Narrator call returns the inactive notice.
C5_NoClientNoRequest ==
    ~client =>
        /\ calls = 0
        /\ sent = <<>>
        /\ Shown(steps, "ai_commentary") => ai_text = InactiveNotice
        /\ ai_text \in {"", InactiveNotice}

\* without a client a table with two farms was narrated and a question asked
C5_Witness ==
    /\ ~client
    /\ Len(summary) = 2
    /\ ai_text = InactiveNotice
    /\ LastOf(steps) = "chat_warning"
    /\ Len(session_state.chat_history) >= 4

\* C6: in a chat round with a client the chat request carries the whole
\* transcript in order with the new user turn last, and when the service
\* answers A the transcript becomes the old one followed by exactly the
\* user's turn and assistant(A).
C6_ChatSendsWholeTranscript ==
    [][ (/\ client
         /\ HasHistory(session_state)
         /\ Shown(steps', "user_message")) =>
            LET before == session_state.chat_history
                request == sent'[Len(sent')]
            IN \E q \in Questions :
                /\ Len(sent') = 2
                /\ request.model = Model
                /\ request.temperature = Temperature
                /\ request.messages = before \o <<Turn("user", q)>>
                /\ LastOf(steps') = "assistant_message" =>
                       \E a \in Texts :
                           session_state' =
                               [chat_history |->
                                   before \o <<Turn("user", q), Turn("assistant", a)>>]
      ]_vars

\* a second chat round succeeded: the request carried five turns
C6_Witness ==
    /\ client
    /\ LastOf(steps) = "assistant_message"
    /\ Len(sent) = 2
    /\ Len(sent[2].messages) = 5
    /\ Len(session_state.chat_history) = 6

\* C7 as stated: a run that processes a newly uploaded file starts from an
\* uninitialized transcript, so after it the transcript is the seed made from
\* the new file's narration.
C7_UploadResetsTranscript ==
    [][ (/\ uploaded_file' # uploaded_file
         /\ Shown(steps', "ai_commentary")) =>
            session_state' = [chat_history |-> SeedHistory(ai_text')]
      ]_vars

\* C7 amended: a new file uploaded in a session that holds a transcript does
\* not reinitialize it: the transcript, with every turn accumulated for the
\* previous file, is unchanged by the run on the new file and is not seeded
\* again from the new file's narration.
C7_UploadKeepsTranscript ==
    [][ (/\ HasHistory(session_state)
         /\ uploaded_file' # uploaded_file) =>
            session_state' = session_state
      ]_vars

\* a run without a chat message narrated a table with a text other than the
\* one in the transcript, which still holds the turns of earlier chat rounds
C7_Witness ==
    /\ Conforming(uploaded_file)
    /\ Shown(steps, "ai_commentary")
    /\ ~Shown(steps, "user_message")
    /\ HasHistory(session_state)
    /\ Len(session_state.chat_history) >= 4
    /\ ai_text = "T2"
    /\ session_state.chat_history[2].content = "T1"

\* C8: a run on a conforming table without rows completes without an
\* index-out-of-bounds fault.
C8_EmptySummaryHandled ==
    (Conforming(uploaded_file) /\ Len(uploaded_file.rows) = 0) =>
        ~Shown(steps, "IndexError")

\* C9 as stated: in a seeded transcript no two adjacent turns have the same
\* role: system, assistant, then user and assistant strictly alternating.
C9_StrictAlternation ==
    HasHistory(session_state) =>
        LET h == session_state.chat_history
        IN /\ Len(h) >= 2
           /\ h[1].role = "system"
           /\ h[2].role = "assistant"
           /\ \A i \in 3..Len(h) :
                  h[i].role = (IF i % 2 = 1 THEN "user" ELSE "assistant")
           /\ \A i \in 1..(Len(h) - 1) : h[i].role # h[i + 1].role

\* C9 amended: a seeded transcript is one system turn, then the initial
\* assistant narration, then user and assistant turns in which every
\* assistant turn directly follows a user turn; user turns may be adjacent
\* (after a round without a completion), and without a client every later
\* turn is a user turn.
C9_AssistantFollowsUser ==
    HasHistory(session_state) =>
        LET h == session_state.chat_history
        IN /\ Len(h) >= 2
           /\ h[1].role = "system"
           /\ h[2].role = "assistant"
           /\ \A i \in 3..Len(h) :
                  /\ h[i].role \in {"user", "assistant"}
                  /\ h[i].role = "assistant" => h[i - 1].role = "user"
                  /\ ~client => h[i].role = "user"

\* a failed round was followed by a successful one
C9_Witness ==
    /\ HasHistory(session_state)
    /\ Roles(session_state.chat_history) =
           <<"system", "assistant", "user", "user", "assistant">>

\* C10: once a transcript exists, every step keeps it and extends it: the old
\* transcript is a prefix of the new one, also when a later run's narration
\* differs from the one the transcript was seeded with.
C10_AppendOnly ==
    [][ HasHistory(session_state) =>
            /\ HasHistory(session_state')
            /\ IsPrefix(session_state.chat_history, session_state'.chat_history)
      ]_vars

\* a chat round ran whose narration differs from the seeded one, and the
\* transcript still starts with the first narration
C10_Witness ==
    /\ HasHistory(session_state)
    /\ Len(session_state.chat_history) >= 4
    /\ Shown(steps, "user_message")
    /\ session_state.chat_history[2].content = "T1"
    /\ ai_text = "T2"

====
